---- MODULE Spec2Model ----
(***************************************************************************)
(* Model of converter.py (Notion HTML export -> Anki CSV).                 *)
(*                                                                         *)
(* Text is a sequence of atoms (one-character strings, or whole words that *)
(* contain none of the characters the code looks for).  A parsed subtree   *)
(* is its pre-order token sequence: character tokens, element-open tokens  *)
(* carrying the attributes, element-close tokens and void <br> tokens.     *)
(***************************************************************************)
EXTENDS Integers, Sequences, FiniteSets, TLC

VARIABLES pc,        \* position of the component under execution
          doc,       \* convert_file / parse_table: the parsed document
          col_map,   \* parse_table: role -> zero-based column index
          rows_out,  \* convert_file: records collected so far
          row,       \* convert_file: index of the next <tr> of the body
          err,       \* the exception that ended the call, or NoErr
          out_file,  \* convert_file: the CSV file, once written
          el,        \* convert_color_classes_to_inline: the element
          el0,       \* ... the element as it was handed in
          el1,       \* ... the element after the first run
          cell,      \* sanitize_inline_html: the cell subtree (tokens)
          cell0,     \* ... the subtree as it was handed in
          pre,       \* ... the subtree before the step last taken
          html,      \* ... the returned markup
          raw,       \* tags_from_cell: the text of the tag cell
          tags       \* tags_from_cell: the returned tag string

vars == <<pc, doc, col_map, rows_out, row, err, out_file,
          el, el0, el1, cell, cell0, pre, html, raw, tags>>

convVars == <<doc, col_map, rows_out, row, err, out_file>>
resVars  == <<el, el0, el1>>
sanVars  == <<cell, cell0, pre, html>>
tagVars  == <<raw, tags>>

-----------------------------------------------------------------------------
(* Bounds of the model *)

MaxCols == 4       \* header cells per header row, cells per body row
MaxRows == 2       \* <tr> rows per body
MaxClasses == 2    \* class tokens per element
MaxTagLen == 5     \* atoms in a tag cell
MaxNodes == 6      \* tokens in a cell subtree (nesting family)
MaxFenceLen == 13  \* characters in a cell (fence family)
MaxFenceText == 2  \* characters of them that are not backticks
MaxStyleParts == 4 \* pieces a style value is put together from

-----------------------------------------------------------------------------
(* Text helpers: Python str methods over sequences of atoms *)

\* whitespace for str.strip() and for \s
IsSpace(c) == c \in {" ", "\n", "\t"}

RECURSIVE LStrip(_)
LStrip(s) == IF s # <<>> /\ IsSpace(Head(s)) THEN LStrip(Tail(s)) ELSE s

RECURSIVE RStrip(_)
RStrip(s) ==
    IF s # <<>> /\ IsSpace(s[Len(s)]) THEN RStrip(SubSeq(s, 1, Len(s) - 1)) ELSE s

\* str.strip()
Strip(s) == LStrip(RStrip(s))

\* str.rstrip(chars) / str.strip(chars)
RECURSIVE RStripChars(_, _)
RStripChars(s, cs) ==
    IF s # <<>> /\ s[Len(s)] \in cs THEN RStripChars(SubSeq(s, 1, Len(s) - 1), cs) ELSE s

RECURSIVE LStripChars(_, _)
LStripChars(s, cs) ==
    IF s # <<>> /\ Head(s) \in cs THEN LStripChars(Tail(s), cs) ELSE s

StripChars(s, cs) == LStripChars(RStripChars(s, cs), cs)

\* str.split(sep) for a one-character separator: empty pieces are kept
RECURSIVE SplitAt(_, _, _)
SplitAt(s, sep, cur) ==
    IF s = <<>> THEN <<cur>>
    ELSE IF Head(s) = sep THEN <<cur>> \o SplitAt(Tail(s), sep, <<>>)
    ELSE SplitAt(Tail(s), sep, Append(cur, Head(s)))

Split(s, sep) == SplitAt(s, sep, <<>>)

\* sep.join(parts)
RECURSIVE Join(_, _)
Join(parts, sep) ==
    IF parts = <<>> THEN <<>>
    ELSE IF Len(parts) = 1 THEN parts[1]
    ELSE parts[1] \o <<sep>> \o Join(Tail(parts), sep)

\* all sequences over S of length at most n
SeqsUpTo(S, n) == UNION {[1..k -> S] : k \in 0..n}

Range(s) == {s[i] : i \in DOMAIN s}

-----------------------------------------------------------------------------
(* parse_table *)

NoErr == [kind |-> "none", what |-> "", col |-> ""]
RuntimeError(what, col) == [kind |-> "RuntimeError", what |-> what, col |-> col]
IndexError == [kind |-> "IndexError", what |-> "", col |-> ""]

Roles == {"id", "front", "back", "tags"}

\* str.lower() on the header atoms
LowerAtom(a) ==
    CASE a = "Notion-ID" -> "notion-id"
      [] a = "Front" -> "front"
      [] a = "FRONT" -> "front"
      [] a = "Back" -> "back"
      [] a = "Tags" -> "tags"
      [] OTHER -> a

Lower(s) == [i \in DOMAIN s |-> LowerAtom(s[i])]

\* (sub in name), for a substring that is one atom
Contains(name, sub) == \E i \in DOMAIN name : name[i] = sub

\* th.get_text(strip=True).lower() for a header cell holding one text node
HeaderName(th) == Lower(Strip(th))

RoleOfTagsFirst(name) ==
    IF Contains(name, "tags") THEN "tags"
    ELSE IF Contains(name, "notion-id") THEN "id"
    ELSE IF name = <<"front">> THEN "front"
    ELSE IF name = <<"back">> THEN "back"
    ELSE "none"

\* the if/elif chain of the header loop
RoleOf(name) ==
    IF Contains(name, "notion-id") THEN "id"
    ELSE IF name = <<"front">> THEN "front"
    ELSE IF name = <<"back">> THEN "back"
    ELSE IF Contains(name, "tags") THEN "tags"
    ELSE "none"

\* col_map[role] = idx
Assign(cm, role, idx) ==
    [r \in DOMAIN cm \cup {role} |-> IF r = role THEN idx ELSE cm[r]]

EmptyMap == [r \in {} |-> 0]

\* for idx, name in enumerate(headers): ...   (headers[1..n] scanned so far)
RECURSIVE ScanHeaders(_, _)
ScanHeaders(headers, n) ==
    IF n = 0 THEN EmptyMap
    ELSE LET cm == ScanHeaders(headers, n - 1)
             role == RoleOf(headers[n])
         IN IF role = "none" THEN cm ELSE Assign(cm, role, n - 1)

RequiredNoBack == <<"id", "front">>

Required == <<"id", "front", "back">>

\* the first required role that the column map lacks, or "" when none is
RECURSIVE FirstMissing(_, _)
FirstMissing(req, cm) ==
    IF req = <<>> THEN ""
    ELSE IF Head(req) \notin DOMAIN cm THEN Head(req)
    ELSE FirstMissing(Tail(req), cm)

\* parse_table(soup): the exception raised or the column map returned
parse_table(d) ==
    IF ~d.hasTable THEN [err |-> RuntimeError("table", ""), col_map |-> EmptyMap]
    ELSE IF ~d.hasThead THEN [err |-> RuntimeError("thead", ""), col_map |-> EmptyMap]
    ELSE LET headers == [i \in DOMAIN d.headers |-> HeaderName(d.headers[i])]
             cm == ScanHeaders(headers, Len(headers))
             missing == FirstMissing(Required, cm)
         IN IF missing # ""
            THEN [err |-> RuntimeError("column", missing), col_map |-> EmptyMap]
            ELSE [err |-> NoErr, col_map |-> cm]

-----------------------------------------------------------------------------
(* Global tables *)

CSS_COLOR_MAP ==
    [k \in {"default", "gray", "brown", "orange", "yellow", "teal", "blue",
            "purple", "pink", "red"} |->
        CASE k = "default" -> "black"
          [] k = "brown" -> "saddlebrown"
          [] k = "yellow" -> "gold"
          [] k = "pink" -> "deeppink"
          [] OTHER -> k]

ALLOWED_TAGS == {"strong", "b", "em", "i", "u", "code", "pre", "span", "br",
                 "ul", "ol", "li", "a", "div"}

-----------------------------------------------------------------------------
(* Elements.  The attributes of an element: class is the list of class     *)
(* tokens, a class token and a style value are sequences of atoms, href is *)
(* one atom; other says that further attributes are present.               *)

NoAttrs == [hasClass |-> FALSE, class |-> <<>>, hasStyle |-> FALSE, style |-> <<>>,
            hasHref |-> FALSE, href |-> "", other |-> FALSE]

\* merge_style(el, new_rules)
merge_style(a, new_rules) ==
    LET existing == RStripChars(Strip(IF a.hasStyle THEN a.style ELSE <<>>), {";"})
    IN [a EXCEPT !.hasStyle = TRUE,
                 !.style = IF existing # <<>> THEN existing \o <<";">> \o new_rules
                           ELSE new_rules]

\* atoms matched by the character class [a-z_] (whole words of such characters)
KeyAtoms == DOMAIN CSS_COLOR_MAP \cup {"zzz", "_background"}

KeyAtomsWithDigits == KeyAtoms \cup {"2"}

\* [a-z_]+ : the atoms a key may consist of
KeyClass == KeyAtoms

\* re.match(r"(?:highlight|block-color)-([a-z_]+)$", cls)
Matches(cls) ==
    /\ Len(cls) >= 3
    /\ cls[1] \in {"highlight", "block-color"}
    /\ cls[2] = "-"
    /\ \A i \in 3..Len(cls) : cls[i] \in KeyClass

\* m.group(1)
KeyOf(cls) == SubSeq(cls, 3, Len(cls))

\* key.endswith("_background")
IsBackgroundKey(key) == key[Len(key)] = "_background"

\* CSS_COLOR_MAP.get(key): "" stands for None
ColorOf(key) ==
    IF Len(key) = 1 /\ key[1] \in DOMAIN CSS_COLOR_MAP THEN CSS_COLOR_MAP[key[1]] ELSE ""

\* list.remove(x): drops the first occurrence
RECURSIVE RemoveFirst(_, _)
RemoveFirst(s, x) ==
    IF s = <<>> THEN <<>>
    ELSE IF Head(s) = x THEN Tail(s)
    ELSE <<Head(s)>> \o RemoveFirst(Tail(s), x)

RemoveNothing(s, x) == s

\* classes.remove(cls)
RemoveClass(classes, cls) == RemoveFirst(classes, cls)

\* the body of (for cls in list(classes)), over the snapshot
RECURSIVE ClassLoop(_, _)
ClassLoop(a, snapshot) ==
    IF snapshot = <<>> THEN a
    ELSE LET cls == Head(snapshot)
         IN IF ~Matches(cls) THEN ClassLoop(a, Tail(snapshot))
            ELSE LET key == KeyOf(cls)
                     col == IF IsBackgroundKey(key) THEN "" ELSE ColorOf(key)
                     b == IF col # "" THEN merge_style(a, <<"color", ":", col>>) ELSE a
                     c == [b EXCEPT !.class = RemoveClass(b.class, cls)]
                 IN ClassLoop(c, Tail(snapshot))

\* the tail of the resolver: rewrite the class attribute or pop it
FinishClasses(a) ==
    IF a.class # <<>> THEN [a EXCEPT !.hasClass = TRUE]
    ELSE [a EXCEPT !.hasClass = FALSE]

\* convert_color_classes_to_inline(el)
convert_color_classes_to_inline(a) ==
    LET classes == IF a.hasClass THEN a.class ELSE <<>>
    IN IF classes = <<>> THEN a
       ELSE FinishClasses(ClassLoop(a, classes))

\* not s.strip().startswith("background-color")
KeepDecl(s) == LET t == Strip(s) IN ~(t # <<>> /\ t[1] = "background-color")

\* the two list comprehensions of background stripping, then ";".join
StrippedStyle(style) ==
    LET styles == SelectSeq(Split(style, ";"), KeepDecl)
        nonblank(s) == Strip(s) # <<>>
    IN Join(SelectSeq(styles, nonblank), ";")

\* if "style" in el.attrs: el["style"] = ...
StripBackground(a) ==
    IF ~a.hasStyle THEN a
    ELSE [a EXCEPT !.style = StrippedStyle(a.style)]

-----------------------------------------------------------------------------
(* Subtrees as token sequences *)

Ch(c) == [k |-> "ch", c |-> c]
Open(name, a) == [k |-> "open", name |-> name, a |-> a]
Close == [k |-> "close"]
Br == [k |-> "br"]

IsOpen(tok) == tok.k = "open"

Min(S) == CHOOSE x \in S : \A y \in S : x <= y

\* position of the close token of the element opened before position j
RECURSIVE CloseFrom(_, _, _)
CloseFrom(t, j, depth) ==
    IF j > Len(t) THEN 0
    ELSE IF t[j].k = "open" THEN CloseFrom(t, j + 1, depth + 1)
    ELSE IF t[j].k = "close"
         THEN IF depth = 0 THEN j ELSE CloseFrom(t, j + 1, depth - 1)
    ELSE CloseFrom(t, j + 1, depth)

MatchClose(t, i) == CloseFrom(t, i + 1, 0)

\* the tokens of t at the positions outside drop, in order
RECURSIVE Without(_, _, _)
Without(t, drop, i) ==
    IF i > Len(t) THEN <<>>
    ELSE (IF i \in drop THEN <<>> ELSE <<t[i]>>) \o Without(t, drop, i + 1)

\* tag.decompose(): the element goes with everything in it
Decompose(t, i) == Without(t, i..MatchClose(t, i), 1)

\* tag.unwrap(): the element is replaced by its children, in place
Unwrap(t, i) == Without(t, {i, MatchClose(t, i)}, 1)

\* mark.name = "span"; convert_color_classes_to_inline(mark)
NeutralizeMark(tok) ==
    IF tok.name = "mark"
    THEN [tok EXCEPT !.name = "span", !.a = convert_color_classes_to_inline(tok.a)]
    ELSE tok

\* for el in cell.find_all("span"): convert_color_classes_to_inline(el)
ResolveSpan(tok) ==
    IF tok.name = "span"
    THEN [tok EXCEPT !.a = convert_color_classes_to_inline(tok.a)]
    ELSE tok

\* a.attrs = {"href": href} if href else {}
PruneAnchor(tok) ==
    IF tok.name = "a"
    THEN [tok EXCEPT !.a = IF tok.a.hasHref /\ tok.a.href # ""
                           THEN [NoAttrs EXCEPT !.hasHref = TRUE, !.href = tok.a.href]
                           ELSE NoAttrs]
    ELSE tok

Disallowed(t) == {i \in DOMAIN t : IsOpen(t[i]) /\ t[i].name \notin ALLOWED_TAGS}

\* for tag in list(cell.find_all(True)): if tag.name not in ALLOWED_TAGS: tag.unwrap()
RECURSIVE UnwrapDisallowed(_)
UnwrapDisallowed(t) ==
    IF Disallowed(t) = {} THEN t ELSE UnwrapDisallowed(Unwrap(t, Min(Disallowed(t))))

\* background stripping of one element
StripElem(tok) == [tok EXCEPT !.a = StripBackground(tok.a)]

\* .replace("<br/>", "\n"): the void line-break element becomes a newline character
BrToNewline(t) == [i \in DOMAIN t |-> IF t[i].k = "br" THEN Ch("\n") ELSE t[i]]

\* .replace("\n", "<br/>")
NewlineToBr(t) ==
    [i \in DOMAIN t |-> IF t[i].k = "ch" /\ t[i].c = "\n" THEN Br ELSE t[i]]

\* the backtick character is the atom "tick"
IsTick(tok) == tok.k = "ch" /\ tok.c = "tick"

\* a fence marker (three backtick characters) starts at position i of s
FenceAt(s, i) ==
    i >= 1 /\ i + 2 <= Len(s) /\ IsTick(s[i]) /\ IsTick(s[i + 1]) /\ IsTick(s[i + 2])

FenceStarts(s, from) == {j \in from..Len(s) : FenceAt(s, j)}

\* the first fence marker at or after position from, 0 when there is none
FirstFence(s, from) == IF FenceStarts(s, from) = {} THEN 0 ELSE Min(FenceStarts(s, from))

Max(S) == CHOOSE x \in S : \A y \in S : x >= y

LastFence(s, from) == IF FenceStarts(s, from) = {} THEN 0 ELSE Max(FenceStarts(s, from))

CloseOfGreedy(s, i) == LastFence(s, i + 3)

\* the lazy group (.*?) and the closing marker, after an opening marker at i:
\* where the closing marker starts
CloseOf(s, i) == FirstFence(s, i + 3)

\* BeautifulSoup(inner, "html.parser"): an end tag with no open element is
\* ignored, elements still open at the end of the fragment are closed there
RECURSIVE Reparse(_, _)
Reparse(s, depth) ==
    IF s = <<>> THEN [i \in 1..depth |-> Close]
    ELSE IF Head(s).k = "open" THEN <<Head(s)>> \o Reparse(Tail(s), depth + 1)
    ELSE IF Head(s).k = "close"
         THEN IF depth = 0 THEN Reparse(Tail(s), 0)
              ELSE <<Close>> \o Reparse(Tail(s), depth - 1)
    ELSE <<Head(s)>> \o Reparse(Tail(s), depth)

MonoStyle == <<"font-family", ":", "Menlo,Consolas,'Courier New',monospace", ";", " ",
               "white-space", ":", "pre">>

MonoOpen == Open("div", [NoAttrs EXCEPT !.hasStyle = TRUE, !.style = MonoStyle])

\* for el in ...find_all(True): background stripping of every element
StepBackground(t) == [i \in DOMAIN t |-> IF IsOpen(t[i]) THEN StripElem(t[i]) ELSE t[i]]

\* fence_replacer(m), m.group(1) = inner
fence_replacer(inner) ==
    <<MonoOpen>> \o StepBackground(Reparse(inner, 0)) \o <<Close>>

\* re.sub(<fence>(.*?)<fence>, fence_replacer, tmp, flags=re.DOTALL), from position p on
RECURSIVE FenceSub(_, _)
FenceSub(s, p) ==
    LET starts == {i \in FenceStarts(s, p) : CloseOf(s, i) # 0}
    IN IF starts = {} THEN SubSeq(s, p, Len(s))
       ELSE LET i == Min(starts)
                j == CloseOf(s, i)
            IN SubSeq(s, p, i - 1) \o fence_replacer(SubSeq(s, i + 3, j - 1))
                   \o FenceSub(s, j + 3)

\* the text nodes of a subtree, in document order
RECURSIVE TextNodes(_, _)
TextNodes(t, cur) ==
    IF t = <<>> THEN (IF cur = <<>> THEN <<>> ELSE <<cur>>)
    ELSE IF Head(t).k = "ch" THEN TextNodes(Tail(t), Append(cur, Head(t).c))
    ELSE (IF cur = <<>> THEN <<>> ELSE <<cur>>) \o TextNodes(Tail(t), <<>>)

RECURSIVE JoinWith(_, _)
JoinWith(parts, sep) ==
    IF parts = <<>> THEN <<>>
    ELSE IF Len(parts) = 1 THEN parts[1]
    ELSE parts[1] \o sep \o JoinWith(Tail(parts), sep)

\* cell.get_text(sep, strip=True)
get_text(t, sep) ==
    LET stripped == [i \in DOMAIN TextNodes(t, <<>>) |-> Strip(TextNodes(t, <<>>)[i])]
        nonempty(x) == x # <<>>
    IN JoinWith(SelectSeq(stripped, nonempty), sep)

\* the tree steps of rich mode, one operator per loop of sanitize_inline_html
StepMarks(t) == [i \in DOMAIN t |-> IF IsOpen(t[i]) THEN NeutralizeMark(t[i]) ELSE t[i]]
StepSpans(t) == [i \in DOMAIN t |-> IF IsOpen(t[i]) THEN ResolveSpan(t[i]) ELSE t[i]]
StepAnchors(t) == [i \in DOMAIN t |-> IF IsOpen(t[i]) THEN PruneAnchor(t[i]) ELSE t[i]]
StepUnwrap(t) == UnwrapDisallowed(t)
\* decode_contents() and the text steps up to the return
StepFences(t) == NewlineToBr(FenceSub(BrToNewline(t), 1))

\* sanitize_inline_html(cell, strip_all=False)
sanitize_rich(t) ==
    StepFences(StepBackground(StepUnwrap(StepAnchors(StepSpans(StepMarks(t))))))

\* sanitize_inline_html(cell, strip_all=True)
sanitize_plain(t) == get_text(t, <<" ">>)

-----------------------------------------------------------------------------
(* tags_from_cell *)

TagSeps == {",", ";", "\n"}

\* re.split(r"[,;\n]+", raw): a run of separators splits once
RECURSIVE ReSplit(_, _, _)
ReSplit(s, cur, insep) ==
    IF s = <<>> THEN <<cur>>
    ELSE IF Head(s) \in TagSeps
         THEN IF insep THEN ReSplit(Tail(s), <<>>, TRUE)
              ELSE <<cur>> \o ReSplit(Tail(s), <<>>, TRUE)
    ELSE ReSplit(Tail(s), Append(cur, Head(s)), FALSE)

\* re.sub(r"\s+", "-", s)
RECURSIVE CollapseWs(_, _)
CollapseWs(s, inws) ==
    IF s = <<>> THEN <<>>
    ELSE IF IsSpace(Head(s))
         THEN IF inws THEN CollapseWs(Tail(s), TRUE)
              ELSE <<"-">> \o CollapseWs(Tail(s), TRUE)
    ELSE <<Head(s)>> \o CollapseWs(Tail(s), FALSE)

NormalizeTagKeepSpaces(tok) == StripChars(Strip(tok), {",", ";"})

\* re.sub(r"\s+", "-", tok.strip()).strip(",;")
NormalizeTag(tok) == StripChars(CollapseWs(Strip(tok), FALSE), {",", ";"})

\* the first list comprehension: stripped, non-empty pieces
TagTokens(rawtext) ==
    LET pieces == ReSplit(rawtext, <<>>, FALSE)
        stripped == [i \in DOMAIN pieces |-> Strip(pieces[i])]
        nonempty(x) == x # <<>>
    IN SelectSeq(stripped, nonempty)

\* the loop building clean / seen
RECURSIVE CleanLoop(_, _)
CleanLoop(tokens, clean) ==
    IF tokens = <<>> THEN clean
    ELSE LET tok == NormalizeTag(Head(tokens))
         IN IF tok # <<>> /\ tok \notin Range(clean)
            THEN CleanLoop(Tail(tokens), Append(clean, tok))
            ELSE CleanLoop(Tail(tokens), clean)

\* the list clean of tags_from_cell(cell)
TagList(c) == CleanLoop(TagTokens(get_text(c, <<" ">>)), <<>>)

\* tags_from_cell(cell) = " ".join(clean)
tags_from_cell(c) == Join(TagList(c), " ")

\* a cell holding one text node
TextCell(text) == [i \in DOMAIN text |-> Ch(text[i])]

-----------------------------------------------------------------------------
(* convert_file *)

NoFile == [exists |-> FALSE, header |-> <<>>, rows |-> <<>>]

\* the indices the loop body subscripts tds with, in evaluation order
NeededIndices(cm) ==
    <<cm["id"], cm["front"], cm["back"]>> \o
    (IF "tags" \in DOMAIN cm THEN <<cm["tags"]>> ELSE <<>>)

\* tds[i] raises IndexError
OutOfRange(tds, i) == i >= Len(tds)

\* the dict appended to rows_out for one <tr>
RecordOf(tds, cm) ==
    [id |-> get_text(tds[cm["id"] + 1], <<>>),
     front |-> sanitize_plain(tds[cm["front"] + 1]),
     back |-> sanitize_rich(tds[cm["back"] + 1]),
     tags |-> IF "tags" \in DOMAIN cm THEN tags_from_cell(tds[cm["tags"] + 1]) ELSE <<>>]

\* table, col_map = parse_table(soup)
ParseTable ==
    /\ pc = "parse"
    /\ LET r == parse_table(doc)
       IN IF r.err # NoErr
          THEN /\ pc' = "raised"
               /\ err' = r.err
               /\ UNCHANGED col_map
          ELSE /\ pc' = "body"
               /\ col_map' = r.col_map
               /\ UNCHANGED err
    /\ UNCHANGED <<doc, rows_out, row, out_file, resVars, sanVars, tagVars>>

FindBodyLenient ==
    /\ pc = "body"
    /\ pc' = "rows"
    /\ UNCHANGED <<doc, col_map, rows_out, row, err, out_file, resVars, sanVars, tagVars>>

\* tbody = table.find("tbody"); raise if None
FindBody ==
    /\ pc = "body"
    /\ IF ~doc.hasTbody
       THEN /\ pc' = "raised"
            /\ err' = RuntimeError("tbody", "")
       ELSE /\ pc' = "rows"
            /\ UNCHANGED err
    /\ UNCHANGED <<doc, col_map, rows_out, row, out_file, resVars, sanVars, tagVars>>

\* one iteration of the loop over tbody.find_all("tr")
ProcessRow ==
    /\ pc = "rows"
    /\ row <= Len(doc.rows)
    /\ LET tds == doc.rows[row]
           need == NeededIndices(col_map)
       IN IF tds = <<>>
          THEN /\ row' = row + 1
               /\ UNCHANGED <<pc, err, rows_out>>
          ELSE IF \E n \in DOMAIN need : OutOfRange(tds, need[n])
          THEN /\ pc' = "raised"
               /\ err' = IndexError
               /\ UNCHANGED <<row, rows_out>>
          ELSE /\ rows_out' = Append(rows_out, RecordOf(tds, col_map))
               /\ row' = row + 1
               /\ UNCHANGED <<pc, err>>
    /\ UNCHANGED <<doc, col_map, out_file, resVars, sanVars, tagVars>>

\* the with-block: the file is created, header and rows are written
WriteOutput ==
    /\ pc = "rows"
    /\ row > Len(doc.rows)
    /\ out_file' = [exists |-> TRUE,
                    header |-> <<"Notion-ID", "Front", "Back", "Tags">>,
                    rows |-> rows_out]
    /\ pc' = "written"
    /\ UNCHANGED <<doc, col_map, rows_out, row, err, resVars, sanVars, tagVars>>

-----------------------------------------------------------------------------
(* convert_color_classes_to_inline as the pipeline drives it over one      *)
(* element: step 1 (marks), step 2 (spans), and a further run              *)

\* step 1 on the element
MarkStep ==
    /\ pc = "el_marks"
    /\ el' = NeutralizeMark(el)
    /\ el1' = el
    /\ pc' = "el_spans"
    /\ UNCHANGED <<el0, convVars, sanVars, tagVars>>

\* step 2 on the element
SpanStep ==
    /\ pc = "el_spans"
    /\ el' = ResolveSpan(el)
    /\ el1' = el
    /\ pc' = "el_resolved"
    /\ UNCHANGED <<el0, convVars, sanVars, tagVars>>

\* the resolver called once more on the processed element
RunAgain ==
    /\ pc = "el_resolved"
    /\ el' = [el EXCEPT !.a = convert_color_classes_to_inline(el.a)]
    /\ el1' = el
    /\ pc' = "el_again"
    /\ UNCHANGED <<el0, convVars, sanVars, tagVars>>

-----------------------------------------------------------------------------
(* sanitize_inline_html(cell, strip_all=False), loop by loop *)

TreeStep(from, to, result) ==
    /\ pc = from
    /\ pre' = cell
    /\ cell' = result
    /\ pc' = to
    /\ UNCHANGED <<cell0, html, convVars, resVars, tagVars>>

Marks == TreeStep("marks", "spans", StepMarks(cell))
Spans == TreeStep("spans", "anchors", StepSpans(cell))
Anchors == TreeStep("anchors", "unwrap", StepAnchors(cell))
UnwrapTags == TreeStep("unwrap", "background", StepUnwrap(cell))
Background == TreeStep("background", "fences", StepBackground(cell))

Fences ==
    /\ pc = "fences"
    /\ html' = StepFences(cell)
    /\ pre' = cell
    /\ pc' = "returned"
    /\ UNCHANGED <<cell, cell0, convVars, resVars, tagVars>>

-----------------------------------------------------------------------------
(* tags_from_cell(cell) on a cell holding the text raw *)

NormalizeTags ==
    /\ pc = "tags"
    /\ tags' = tags_from_cell(TextCell(raw))
    /\ pc' = "tags_done"
    /\ UNCHANGED <<raw, convVars, resVars, sanVars>>

-----------------------------------------------------------------------------
(* Inputs *)

\* header cell texts, before trimming and lowering
HeaderTexts ==
    { <<"Notion-ID">>, <<" ", "FRONT", " ">>, <<"Back">>, <<"Tags">>,
      <<"my", " ", "Tags">>, <<"Notion-ID", " ", "Tags">>, <<"Front", "x">>, <<"x">> }

\* header rows of the documents convert_file is run on
ConvHeaderRows ==
    { <<<<"Notion-ID">>, <<"Front">>, <<"Back">>, <<"Tags">>>>,
      <<<<"Notion-ID">>, <<"Front">>, <<"Back">>>>,
      <<<<"Tags">>, <<"Back">>, <<"Front">>, <<"Notion-ID">>>>,
      <<<<"x">>, <<"Notion-ID">>, <<"Front">>, <<"Back">>>>,
      <<<<"Notion-ID">>, <<"Front">>>>,
      <<<<"Front">>, <<"Back">>, <<"Tags">>>>,
      <<<<"Back">>, <<"Notion-ID">>, <<"Front">>, <<"Front">>>>,
      <<>> }

\* the row of the smoke test, cell by cell
SampleCell(j) ==
    CASE j = 1 -> TextCell(<<"123">>)
      [] j = 2 -> TextCell(<<"What", " ", "is", " ", "OSPF?">>)
      [] j = 3 -> <<Open("mark", [NoAttrs EXCEPT !.hasClass = TRUE,
                                                  !.class = <<<<"highlight", "-", "red">>>>]),
                    Ch("Link-state"), Close, Ch(" "), Ch("protocol")>>
      [] j = 4 -> TextCell(<<"OSPF", " ", "LSA", ",", " ", "Routing">>)
      [] OTHER -> TextCell(<<"extra">>)

\* cell j of body row r: the sample cell, its text led by the row number
CellAt(r, j) == <<Ch(ToString(r))>> \o SampleCell(j)

\* a body whose r-th <tr> has counts[r] cells
BodyOf(counts) == [r \in DOMAIN counts |-> [j \in 1..counts[r] |-> CellAt(r, j)]]

Structures ==
    { [t |-> TRUE, h |-> TRUE, b |-> TRUE], [t |-> FALSE, h |-> FALSE, b |-> FALSE],
      [t |-> TRUE, h |-> FALSE, b |-> TRUE], [t |-> TRUE, h |-> TRUE, b |-> FALSE],
      [t |-> TRUE, h |-> FALSE, b |-> FALSE] }

ConvDocs ==
    { [hasTable |-> s.t, hasThead |-> s.h, hasTbody |-> s.b,
       headers |-> h, rows |-> BodyOf(counts)] :
         s \in Structures, h \in ConvHeaderRows, counts \in SeqsUpTo(0..MaxCols, MaxRows) }

LocateDocs ==
    { [hasTable |-> TRUE, hasThead |-> TRUE, hasTbody |-> TRUE,
       headers |-> h, rows |-> <<>>] : h \in SeqsUpTo(HeaderTexts, MaxCols) }

ClassTokens ==
    { <<"highlight", "-", "red">>, <<"block-color", "-", "red">>,
      <<"highlight", "-", "brown">>, <<"highlight", "-", "red", "_background">>,
      <<"highlight", "-", "zzz">>, <<"highlight", "-", "red", "2">>,
      <<"bold">>, <<"x", "-", "highlight", "-", "red">>, <<"highlight", "-">> }

ResStyles ==
    { [has |-> FALSE, v |-> <<>>], [has |-> TRUE, v |-> <<>>],
      [has |-> TRUE, v |-> <<"color", ":", "blue">>],
      [has |-> TRUE, v |-> <<"font-weight", ":", "bold", ";", " ">>] }

\* the class attribute: absent, or a list of class tokens (class="" is the empty list)
ResClasses ==
    {[has |-> FALSE, v |-> <<>>]} \cup
    {[has |-> TRUE, v |-> c] : c \in SeqsUpTo(ClassTokens, MaxClasses)}

ResElems ==
    { Open(n, [NoAttrs EXCEPT !.hasClass = c.has, !.class = c.v,
                              !.hasStyle = st.has, !.style = st.v]) :
        n \in {"mark", "span"}, st \in ResStyles, c \in ResClasses }

RECURSIVE DepthOk(_, _)
DepthOk(t, depth) ==
    IF t = <<>> THEN depth = 0
    ELSE IF Head(t).k = "open" THEN DepthOk(Tail(t), depth + 1)
    ELSE IF Head(t).k = "close" THEN depth > 0 /\ DepthOk(Tail(t), depth - 1)
    ELSE DepthOk(Tail(t), depth)

\* t is the token sequence of a well-formed subtree
Balanced(t) == DepthOk(t, 0)

NestTokens == {Ch("a"), Ch("b"), Open("font", NoAttrs), Open("div", NoAttrs), Close}

NestCells == {t \in SeqsUpTo(NestTokens, MaxNodes) : Balanced(t)}

StylePieces ==
    { <<"background-color", ":", "yellow">>, <<"color", ":", "red">>, <<";">>, <<" ">> }

RECURSIVE Concat(_)
Concat(parts) == IF parts = <<>> THEN <<>> ELSE Head(parts) \o Concat(Tail(parts))

Styles == {Concat(ps) : ps \in SeqsUpTo(StylePieces, MaxStyleParts)}

Fence == <<Ch("tick"), Ch("tick"), Ch("tick")>>

StyleCells ==
    LET plain == { <<Open(n, [NoAttrs EXCEPT !.hasStyle = TRUE, !.style = st,
                                             !.hasHref = (n = "a"),
                                             !.href = IF n = "a" THEN "u" ELSE "",
                                             !.other = (n = "a")]),
                     Ch("a"), Close>> : n \in {"span", "a", "font"}, st \in Styles }
    IN plain \cup {Fence \o c \o Fence : c \in plain}

\* text of backticks with a few letters and line breaks in between
FenceCells ==
    UNION { UNION { { [i \in 1..n |-> IF i \in P THEN f[i] ELSE Ch("tick")] :
                        f \in [P -> {Ch("a"), Br}] } :
                    P \in {Q \in SUBSET (1..n) : Cardinality(Q) <= MaxFenceText} } :
            n \in 0..MaxFenceLen }

TagAtoms == {"OSPF", "LSA", " ", "\t", ",", ";", "\n"}

TagExample == <<"OSPF", " ", "LSA", ",", " ", "Routing">>

\* the example again, then the same tag written with a dash
TagRepeated == TagExample \o <<";", "OSPF", "-", "LSA">>

TagInputs == SeqsUpTo(TagAtoms, MaxTagLen) \cup {TagExample, TagRepeated}

-----------------------------------------------------------------------------
(* Specifications *)

IdleConv ==
    /\ doc = [hasTable |-> FALSE, hasThead |-> FALSE, hasTbody |-> FALSE,
              headers |-> <<>>, rows |-> <<>>]
    /\ col_map = EmptyMap
    /\ rows_out = <<>>
    /\ row = 1
    /\ err = NoErr
    /\ out_file = NoFile

IdleRes == el = Open("span", NoAttrs) /\ el0 = el /\ el1 = el

IdleSan == cell = <<>> /\ cell0 = <<>> /\ pre = <<>> /\ html = <<>>

IdleTags == raw = <<>> /\ tags = <<>>

\* convert_file(input_path, output_path) on a parsed document
Init ==
    /\ pc = "parse"
    /\ doc \in ConvDocs
    /\ col_map = EmptyMap
    /\ rows_out = <<>>
    /\ row = 1
    /\ err = NoErr
    /\ out_file = NoFile
    /\ IdleRes /\ IdleSan /\ IdleTags

Next == ParseTable \/ FindBody \/ ProcessRow \/ WriteOutput

Spec == Init /\ [][Next]_vars

\* parse_table(soup) on documents that have a table with a header section
InitLocate ==
    /\ pc = "parse"
    /\ doc \in LocateDocs
    /\ col_map = EmptyMap
    /\ rows_out = <<>>
    /\ row = 1
    /\ err = NoErr
    /\ out_file = NoFile
    /\ IdleRes /\ IdleSan /\ IdleTags

SpecLocate == InitLocate /\ [][ParseTable]_vars

\* the resolver on one mark or span element
InitResolver ==
    /\ pc = "el_marks"
    /\ el \in ResElems
    /\ el0 = el
    /\ el1 = el
    /\ IdleConv /\ IdleSan /\ IdleTags

NextResolver == MarkStep \/ SpanStep \/ RunAgain

SpecResolver == InitResolver /\ [][NextResolver]_vars

InitSanitize(cells) ==
    /\ pc = "marks"
    /\ cell \in cells
    /\ cell0 = cell
    /\ pre = cell
    /\ html = <<>>
    /\ IdleConv /\ IdleRes /\ IdleTags

NextSanitize == Marks \/ Spans \/ Anchors \/ UnwrapTags \/ Background \/ Fences

\* rich mode on nested subtrees
SpecUnwrap == InitSanitize(NestCells) /\ [][NextSanitize]_vars

\* rich mode on styled elements, outside and inside fences
SpecStyle == InitSanitize(StyleCells) /\ [][NextSanitize]_vars

\* rich mode on text with backticks and line breaks
SpecFence == InitSanitize(FenceCells) /\ [][NextSanitize]_vars

\* tags_from_cell on tag cell texts
InitTags ==
    /\ pc = "tags"
    /\ raw \in TagInputs
    /\ tags = <<>>
    /\ IdleConv /\ IdleRes /\ IdleSan

SpecTags == InitTags /\ [][NormalizeTags]_vars

-----------------------------------------------------------------------------
(* Claims *)

Lacking == ~doc.hasTable \/ ~doc.hasThead \/ ~doc.hasTbody

\* C1: a document without a table, without a header section or without a body
\* section ends convert_file with the structure error (RuntimeError in the
\* code); no record is collected and the output file is never written.
C1_StructureErrorNoOutput ==
    Lacking =>
        /\ pc \in {"parse", "body", "raised"}
        /\ pc = "parse" => (parse_table(doc).err.kind = "RuntimeError" \/ ~doc.hasTbody)
        /\ pc = "body" => ~doc.hasTbody
        /\ pc = "raised" => err.kind = "RuntimeError"
        /\ rows_out = <<>>
        /\ out_file = NoFile

\* a document with header and rows but no body section has raised "tbody"
C1_Witness ==
    /\ pc = "raised"
    /\ doc.hasTable /\ doc.hasThead /\ ~doc.hasTbody
    /\ Len(doc.rows) > 0
    /\ err = RuntimeError("tbody", "")

HeaderNames == [i \in DOMAIN doc.headers |-> HeaderName(doc.headers[i])]

MappedRoles == {RoleOf(HeaderNames[i]) : i \in DOMAIN HeaderNames}

MissingRoles == {"id", "front", "back"} \ MappedRoles

\* C2: when one of id, front, back has no mapped column after the scan,
\* parse_table raises the structure error naming a role that is missing;
\* otherwise it raises nothing and the column map has id, front and back.
C2_MissingRoleNamed ==
    pc # "parse" =>
        IF MissingRoles # {}
        THEN /\ pc = "raised"
             /\ err.kind = "RuntimeError"
             /\ err.what = "column"
             /\ err.col \in MissingRoles
        ELSE /\ pc = "body"
             /\ err = NoErr
             /\ {"id", "front", "back"} \subseteq DOMAIN col_map

\* front and back are both missing, and the error names front
C2_Witness ==
    /\ pc = "raised"
    /\ MissingRoles = {"front", "back"}
    /\ err.col = "front"
    /\ Len(doc.headers) >= 2

NonEmptyRows == LET hasCells(tds) == tds # <<>> IN SelectSeq(doc.rows, hasCells)

\* C3: a document that passes parse_table and has a body ends with one
\* record per body row that has at least one cell, in row order, whatever
\* the number of cells of the rows.
C3_OneRecordPerNonEmptyRow ==
    (parse_table(doc).err = NoErr /\ doc.hasTbody /\ pc \in {"written", "raised"}) =>
        /\ pc = "written"
        /\ Len(out_file.rows) = Len(NonEmptyRows)
        /\ \A i \in DOMAIN out_file.rows :
               out_file.rows[i] = RecordOf(NonEmptyRows[i], col_map)

\* the roles the claim's four rules give a header name, each rule on its own
ClaimedRoles(name) ==
    (IF name = <<"front">> THEN {"front"} ELSE {}) \cup
    (IF Contains(name, "notion-id") THEN {"id"} ELSE {}) \cup
    (IF name = <<"back">> THEN {"back"} ELSE {}) \cup
    (IF Contains(name, "tags") THEN {"tags"} ELSE {})

\* C4 as stated: every header that a rule gives a role has its position as
\* that role's index, and every role of the map comes from such a header.
C4_RoleByRuleAtItsPosition ==
    pc = "body" =>
        /\ \A i \in DOMAIN HeaderNames : \A r \in ClaimedRoles(HeaderNames[i]) :
               r \in DOMAIN col_map /\ col_map[r] = i - 1
        /\ \A r \in DOMAIN col_map : \E i \in DOMAIN HeaderNames :
               r \in ClaimedRoles(HeaderNames[i])

\* the rules in the claim's order, the first that applies deciding
FirstRuleRole(name) ==
    IF name = <<"front">> THEN "front"
    ELSE IF Contains(name, "notion-id") THEN "id"
    ELSE IF name = <<"back">> THEN "back"
    ELSE IF Contains(name, "tags") THEN "tags"
    ELSE "none"

\* C4 (amended): a header gets the role of the first rule that applies (a
\* name containing both notion-id and tags is the id column), and the index
\* of a role is the position of the last header with that role.
C4_FirstRuleLastHeader ==
    pc = "body" =>
        \A r \in Roles :
            LET S == {i \in DOMAIN HeaderNames : FirstRuleRole(HeaderNames[i]) = r}
            IN IF S = {} THEN r \notin DOMAIN col_map
               ELSE r \in DOMAIN col_map /\ col_map[r] = Max(S) - 1

\* a header containing notion-id and tags became the id column, and a role
\* met twice kept the later position
C4_Witness ==
    /\ pc = "body"
    /\ \E i \in DOMAIN HeaderNames :
           /\ HeaderNames[i] = <<"notion-id", " ", "tags">>
           /\ col_map["id"] = i - 1
    /\ "tags" \notin DOMAIN col_map
    /\ \E i, j \in DOMAIN HeaderNames :
           i < j /\ HeaderNames[i] = <<"front">> /\ HeaderNames[j] = <<"front">>


\* the non-blank declarations of a style value
Declarations(style) ==
    LET nonblank(d) == Strip(d) # <<>> IN SelectSeq(Split(style, ";"), nonblank)

IsBackgroundDecl(d) == Strip(d)[1] = "background-color"

\* the style value has declarations and all of them are background-color ones
OnlyBackground(style) ==
    /\ Declarations(style) # <<>>
    /\ \A i \in DOMAIN Declarations(style) : IsBackgroundDecl(Declarations(style)[i])

\* the declarations other than background-color ones, joined by ";"
RemainingStyle(style) ==
    LET other(d) == ~IsBackgroundDecl(d) IN Join(SelectSeq(Declarations(style), other), ";")

\* the elements of the returned markup other than the monospace blocks
ContentElems(t) == {i \in DOMAIN t : IsOpen(t[i]) /\ t[i] # MonoOpen}

\* C5: after background stripping an element whose style held only
\* background-color declarations has no style attribute; any other style
\* keeps its remaining declarations in order, joined by ";".  The same
\* holds of the elements of the returned markup, inside fences too.
C5_BackgroundOnlyStyleDropped ==
    /\ pc = "fences" =>
           \A i \in DOMAIN cell :
               (IsOpen(pre[i]) /\ pre[i].a.hasStyle) =>
                   IF OnlyBackground(pre[i].a.style)
                   THEN ~cell[i].a.hasStyle
                   ELSE cell[i].a.style = RemainingStyle(pre[i].a.style)
    /\ pc = "returned" =>
           \A i \in ContentElems(html) :
               (\A j \in DOMAIN cell0 :
                    (IsOpen(cell0[j]) /\ cell0[j].name # "a") =>
                        OnlyBackground(cell0[j].a.style))
                   => ~html[i].a.hasStyle

\* the number of color declarations of a style value
ColorDecls(style) == Cardinality({i \in DOMAIN style : style[i] = "color"})

\* a class token of a colour the table knows, not a background variant
KnownColourToken(cls) ==
    /\ Len(cls) = 3
    /\ cls[1] \in {"highlight", "block-color"}
    /\ cls[2] = "-"
    /\ cls[3] \in DOMAIN CSS_COLOR_MAP

\* C6: a further run of the resolver on a processed element changes
\* neither class list nor style; a mark, resolved in step 1 and again as a
\* span in step 2, carries one color declaration per colour token it had.
C6_ResolverIdempotent ==
    /\ pc = "el_again" => el = el1
    /\ (pc = "el_resolved" /\ el0.name = "mark") => el = el1
    /\ pc \in {"el_resolved", "el_again"} =>
           ColorDecls(el.a.style) =
               ColorDecls(el0.a.style) +
               Cardinality({i \in DOMAIN el0.a.class : KnownColourToken(el0.a.class[i])})

\* a mark with a colour token went through step 1 and step 2
C6_Witness ==
    /\ pc = "el_resolved"
    /\ el0.name = "mark"
    /\ el0.a.class = <<<<"highlight", "-", "red">>, <<"bold">>>>
    /\ el.name = "span"
    /\ el.a.style = <<"color", ":", "red">>
    /\ el.a.class = <<<<"bold">>>>

\* tokens of the tag string
TagsOut == IF tags = <<>> THEN <<>> ELSE Split(tags, " ")

\* the normalized, non-empty tokens of the cell text, duplicates included
NormalizedTokens ==
    LET toks == TagTokens(get_text(TextCell(raw), <<" ">>))
        norm == [i \in DOMAIN toks |-> NormalizeTag(toks[i])]
        nonempty(x) == x # <<>>
    IN SelectSeq(norm, nonempty)

FirstIndex(s, x) == Min({i \in DOMAIN s : s[i] = x})

\* C7: the tag string is a space-joined list of tokens, none empty, none
\* twice, none with whitespace, comma or semicolon, in first-seen order;
\* the cell text of the example gives OSPF-LSA Routing.
C7_TagsCleanAndDistinct ==
    pc = "tags_done" =>
        /\ \A i \in DOMAIN TagsOut :
               /\ TagsOut[i] # <<>>
               /\ \A k \in DOMAIN TagsOut[i] :
                      TagsOut[i][k] \notin {" ", "\t", "\n", ",", ";"}
        /\ \A i, j \in DOMAIN TagsOut : i # j => TagsOut[i] # TagsOut[j]
        /\ Range(TagsOut) = Range(NormalizedTokens)
        /\ \A i, j \in DOMAIN TagsOut :
               i < j => FirstIndex(NormalizedTokens, TagsOut[i])
                            < FirstIndex(NormalizedTokens, TagsOut[j])
        /\ raw = TagExample => tags = <<"OSPF", "-", "LSA", " ", "Routing">>

\* the example followed by a repetition of its first tag has been normalized
C7_Witness ==
    /\ pc = "tags_done"
    /\ raw = TagRepeated
    /\ Len(NormalizedTokens) = 3
    /\ tags = <<"OSPF", "-", "LSA", " ", "Routing">>

\* the characters of the text nodes of a subtree, left to right
Chars(t) == LET isCh(tok) == tok.k = "ch" IN SelectSeq(t, isCh)

Elems(t) == SelectSeq(t, IsOpen)

AllowedElems(t) ==
    LET ok(tok) == IsOpen(tok) /\ tok.name \in ALLOWED_TAGS IN SelectSeq(t, ok)

\* C8: tag allow-listing leaves no element outside the allowed set at any
\* depth, keeps the allowed elements, and keeps the text of the cell as it
\* was: nothing dropped, duplicated or reordered.
C8_UnwrapKeepsText ==
    pc = "background" =>
        /\ Chars(cell) = Chars(pre)
        /\ Disallowed(cell) = {}
        /\ Elems(cell) = AllowedElems(pre)
        /\ Balanced(cell)

\* a disallowed element nested in a disallowed element, text at both depths
C8_Witness ==
    /\ pc = "background"
    /\ \E i, j \in Disallowed(pre) :
           /\ i < j /\ j < MatchClose(pre, i)
           /\ \E m \in (i + 1)..(j - 1) : pre[m].k = "ch"
           /\ \E m \in (j + 1)..(MatchClose(pre, j) - 1) : pre[m].k = "ch"
    /\ Len(Chars(cell)) >= 2


\* prefix, separator and a key of lowercase letters, digits and underscores
AlnumKeyToken(cls) ==
    /\ Len(cls) >= 3
    /\ cls[1] \in {"highlight", "block-color"}
    /\ cls[2] = "-"
    /\ \A i \in 3..Len(cls) : cls[i] \in DOMAIN CSS_COLOR_MAP \cup {"zzz", "_background", "2"}

\* prefix, separator and a key of lowercase letters and underscores
LetterKeyToken(cls) ==
    /\ Len(cls) >= 3
    /\ cls[1] \in {"highlight", "block-color"}
    /\ cls[2] = "-"
    /\ \A i \in 3..Len(cls) : cls[i] \in DOMAIN CSS_COLOR_MAP \cup {"zzz", "_background"}

Tmp == BrToNewline(pre)

\* the fence markers of s from position p on, counted left to right without overlap
RECURSIVE Markers(_, _)
Markers(s, p) ==
    IF FirstFence(s, p) = 0 THEN 0 ELSE 1 + Markers(s, FirstFence(s, p) + 3)

Blocks(t) == {i \in DOMAIN t : t[i] = MonoOpen}

\* the returned markup with every block put back between two markers
RECURSIVE Unfence(_)
Unfence(t) ==
    IF t = <<>> THEN <<>>
    ELSE (IF Head(t).k \in {"open", "close"} THEN Fence
          ELSE IF Head(t).k = "br" THEN <<Ch("\n")>>
          ELSE <<Head(t)>>) \o Unfence(Tail(t))

\* the text of t outside the blocks, a separator standing for each block
RECURSIVE Outside(_, _)
Outside(t, depth) ==
    IF t = <<>> THEN <<>>
    ELSE IF Head(t).k = "open" THEN <<Ch("|")>> \o Outside(Tail(t), depth + 1)
    ELSE IF Head(t).k = "close" THEN Outside(Tail(t), depth - 1)
    ELSE (IF depth = 0 THEN <<Head(t)>> ELSE <<>>) \o Outside(Tail(t), depth)

\* C10: the markers are paired left to right, each opening marker with the
\* first marker after it; every pair, line breaks in it or not, becomes one
\* monospace block, whose content has no marker; with an odd number of
\* markers the last one stays in the text behind the last block.
C10_FencesPairedFirstClose ==
    pc = "returned" =>
        /\ Cardinality(Blocks(html)) = Markers(Tmp, 1) \div 2
        /\ \A i \in Blocks(html) :
               /\ MatchClose(html, i) # 0
               /\ FenceStarts(SubSeq(html, i + 1, MatchClose(html, i) - 1), 1) = {}
        /\ Unfence(html) = Tmp
        /\ Markers(Outside(html, 0), 1) = Markers(Tmp, 1) % 2
        /\ Markers(Tmp, 1) % 2 = 1 =>
               \E j \in DOMAIN html :
                   /\ FenceAt(html, j)
                   /\ \A i \in Blocks(html) : i < j

\* three markers: one block, with a line break in it, and a marker left over
C10_Witness ==
    /\ pc = "returned"
    /\ Markers(Tmp, 1) = 3
    /\ Cardinality(Blocks(html)) = 1
    /\ \E i \in Blocks(html) : html[i + 1] = Br /\ MatchClose(html, i) = i + 2
    /\ FenceAt(html, Len(html) - 2)

====
